---- MODULE Spec2Model ----
(***************************************************************************)
(* Model of the Lisk transaction-pattern analyzers:                        *)
(*   src/lisk_analysis_simplified.py  (variant "simplified", hourly data)  *)
(*   src/lisk_transaction_analysis.py (variant "full", 5-minute data)      *)
(*                                                                         *)
(* Abstractions.                                                           *)
(*  - Python floats are modelled by exact rationals <<num, den>>, den > 0, *)
(*    kept in lowest terms; int() is truncation toward zero.               *)
(*  - Time is counted in minutes since a Monday 00:00, so that             *)
(*    weekday = (minute \div 1440) % 7 with 0 = Monday as in Python.       *)
(*  - The 90-day period is scaled to DaysSimplified / DaysFull days.       *)
(*  - The process-wide random generator is a small deterministic          *)
(*    generator whose seed is unknown to the program: its initial state    *)
(*    is drawn at Init, every draw advances it.                            *)
(*  - A square root is kept symbolically: [sqrt_of |-> v, over |-> m]      *)
(*    stands for sqrt(v) / m.                                              *)
(*  - numpy's nan and inf are the pairs <<0, 0>> and <<1, 0>>, <<-1, 0>>.   *)
(***************************************************************************)
EXTENDS Integers, Sequences, FiniteSets, TLC

(***************************************************************************)
(* Bounds of the model.                                                    *)
(***************************************************************************)
\* days generated by the simplified analyzer (90 in the source)
DaysSimplified == 3
\* days spanned by the full analyzer's date_range (90 in the source)
DaysFull == 2
\* initial states of the random generator are 0..MaxSeed
MaxSeed == 2

(***************************************************************************)
(* Program constants.                                                      *)
(***************************************************************************)
HoursPerDay == 24
MinutesPerDay == 1440
IntervalMinutes == 5
\* modulus of the model's random generator
RngMod == 16

(***************************************************************************)
(* Exact rational arithmetic standing for Python's float arithmetic.       *)
(***************************************************************************)
Abs(n) == IF n < 0 THEN -n ELSE n

RECURSIVE GCD(_, _)
GCD(a, b) == IF b = 0 THEN a ELSE GCD(b, a % b)

\* lowest terms, positive denominator
Norm(r) ==
    LET g == GCD(Abs(r[1]), Abs(r[2]))
        s == IF r[2] < 0 THEN -1 ELSE 1
    IN  IF r[1] = 0 THEN <<0, 1>> ELSE <<s * (r[1] \div g), s * (r[2] \div g)>>

R(n) == <<n, 1>>

RMul(x, y) ==
    LET g1 == GCD(Abs(x[1]), y[2])
        g2 == GCD(Abs(y[1]), x[2])
    IN  IF x[1] = 0 \/ y[1] = 0 THEN <<0, 1>>
        ELSE <<(x[1] \div g1) * (y[1] \div g2), (x[2] \div g2) * (y[2] \div g1)>>

RAdd(x, y) ==
    LET g == GCD(x[2], y[2])
    IN  Norm(<<x[1] * (y[2] \div g) + y[1] * (x[2] \div g), (x[2] \div g) * y[2]>>)

RNeg(x) == <<-x[1], x[2]>>

RSub(x, y) == RAdd(x, RNeg(y))

\* x / y for y # 0
RDiv(x, y) == RMul(x, IF y[1] < 0 THEN <<-y[2], -y[1]>> ELSE <<y[2], y[1]>>)

RSq(x) == <<x[1] * x[1], x[2] * x[2]>>

RLess(x, y) == RSub(x, y)[1] < 0

RLeq(x, y) == RSub(x, y)[1] <= 0

RIsZero(x) == x[1] = 0

\* Python int(x): truncation toward zero
Trunc(x) == IF x[1] >= 0 THEN x[1] \div x[2] ELSE -((-x[1]) \div x[2])

\* int(x * y), computed without forming the full product of the numerators
TruncMul(x, y) ==
    LET n1 == Abs(x[1])
        n2 == Abs(y[1])
        q == n1 \div x[2]
        r == n1 % x[2]
        q2 == (q * n2) \div y[2]
        r2 == (q * n2) % y[2]
        magnitude == q2 + (r2 * x[2] + r * n2) \div (x[2] * y[2])
    IN  IF (x[1] < 0) = (y[1] < 0) THEN magnitude ELSE -magnitude

\* mathematical floor
Floor(x) == x[1] \div x[2]

\* sum(s[lo..hi]) of integers, by halving the range
RECURSIVE SumRange(_, _, _)
SumRange(s, lo, hi) ==
    IF lo > hi THEN 0
    ELSE IF lo = hi THEN s[lo]
    ELSE SumRange(s, lo, (lo + hi) \div 2) + SumRange(s, ((lo + hi) \div 2) + 1, hi)

SumSeq(s) == SumRange(s, 1, Len(s))

\* sum(s[lo..hi]) of rationals
RECURSIVE RSumRange(_, _, _)
RSumRange(s, lo, hi) ==
    IF lo > hi THEN <<0, 1>>
    ELSE IF lo = hi THEN s[lo]
    ELSE RAdd(RSumRange(s, lo, (lo + hi) \div 2),
              RSumRange(s, ((lo + hi) \div 2) + 1, hi))

RSumSeq(s) == RSumRange(s, 1, Len(s))

\* the sequence s with every element evaluated once
Materialize(s) == SubSeq(s, 1, Len(s))

(***************************************************************************)
(* Calendar.                                                               *)
(***************************************************************************)
DateOf(t) == t \div MinutesPerDay
HourOf(t) == (t % MinutesPerDay) \div 60
WeekdayOfDate(d) == d % 7
Weekday(t) == WeekdayOfDate(DateOf(t))

\* a Monday 00:00 far enough from the epoch for start dates to be positive
NowBase == 28 * MinutesPerDay

\* wall-clock instants at which an analyzer is constructed
Nows ==
    { NowBase,                                   \* Monday 00:00
      NowBase + 4 * MinutesPerDay + 13 * 60 + 7, \* Friday 13:07
      NowBase + 6 * MinutesPerDay + 23 * 60 + 58 \* Sunday 23:58
    }

(***************************************************************************)
(* Random source: random.uniform(0.8, 1.2) and np.random.normal(1, 0.15).  *)
(***************************************************************************)
UniformLevels == << <<4, 5>>, <<1, 1>>, <<6, 5>> >>
NormalLevels == << <<-1, 1>>, <<1, 1>>, <<3, 2>> >>

\* generators: "fixed" repeats its state, "lcg" steps through all of 0..RngMod-1
RngKinds == {"fixed", "lcg"}

RngNext(g) ==
    IF g.kind = "fixed" THEN g ELSE [g EXCEPT !.x = (5 * g.x + 3) % RngMod]

RngLevel(g, levels) == levels[(g.x % Len(levels)) + 1]

(***************************************************************************)
(* Seasonal model.                                                         *)
(***************************************************************************)
get_hour_factor_late_business(h) ==
    IF (9 <= h /\ h <= 11) \/ (14 <= h /\ h <= 16) THEN <<9, 5>>
    ELSE IF 7 <= h /\ h <= 19 THEN <<13, 10>>
    ELSE IF 20 <= h /\ h <= 23 THEN <<11, 10>>
    ELSE IF 0 <= h /\ h <= 6 THEN <<2, 5>>
    ELSE <<1, 1>>

get_hour_factor_simplified(h) ==
    IF (9 <= h /\ h <= 11) \/ (14 <= h /\ h <= 16) THEN <<9, 5>>
    ELSE IF 7 <= h /\ h <= 18 THEN <<13, 10>>
    ELSE IF 20 <= h /\ h <= 23 THEN <<11, 10>>
    ELSE IF 0 <= h /\ h <= 6 THEN <<2, 5>>
    ELSE <<1, 1>>

get_hour_factor_full(h) ==
    IF (9 <= h /\ h <= 11) \/ (14 <= h /\ h <= 16) THEN <<9, 5>>
    ELSE IF 7 <= h /\ h <= 18 THEN <<13, 10>>
    ELSE IF 20 <= h /\ h <= 23 THEN <<11, 10>>
    ELSE IF 0 <= h /\ h <= 6 THEN <<2, 5>>
    ELSE <<1, 1>>

get_day_factor_sunday_only(wd) == IF wd < 6 THEN <<1, 1>> ELSE <<13, 20>>

get_day_factor_simplified(wd) == IF wd < 5 THEN <<1, 1>> ELSE <<13, 20>>

get_day_factor_full(wd) == IF wd < 5 THEN <<1, 1>> ELSE <<13, 20>>

GrowthFactorCompound(d) ==
    IF d <= 1 THEN RAdd(R(1), RDiv(RMul(<<3, 100>>, R(d)), R(30)))
    ELSE RMul(<<1001, 1000>>, RAdd(R(1), RDiv(RMul(<<3, 100>>, R(d - 1)), R(30))))

\* 1 + (0.03 * day / 30)
GrowthFactor(d) == RAdd(R(1), RDiv(RMul(<<3, 100>>, R(d)), R(30)))

(***************************************************************************)
(* State.                                                                  *)
(***************************************************************************)
VARIABLES
    variant,            \* "simplified" or "full": which file's analyzer this is
    base_daily_volume,  \* self.base_daily_volume
    now,                \* datetime.now() at construction
    rng,                \* state of the process-wide random generator
    pc,                 \* position of the program
    day,                \* simplified: loop variable day
    hour,               \* simplified: loop variable hour
    daily_total,        \* simplified: local daily_total of the current day
    hourly_data,        \* simplified: local hourly_data of the current day
    idx,                \* full: position in dates (0-based)
    locals,             \* factors computed by the last loop iteration
    historical_data,    \* self.historical_data (data while it is being built)
    base_stats,         \* full: self.stats
    calc,               \* locals of the last statistics call
    stats,              \* result of calculate_statistics / analyze_patterns
    storage,            \* result of the storage estimate
    metadata,           \* simplified: the metadata written by the report
    previous            \* the series of an analyzer constructed earlier

vars == <<variant, base_daily_volume, now, rng, pc, day, hour, daily_total,
          hourly_data, idx, locals, historical_data, base_stats, calc, stats,
          storage, metadata, previous>>

NoLocals == [hour |-> -1, weekday |-> -1, day |-> -1]

NoStats == [error |-> "not_run"]

(***************************************************************************)
(* Simplified analyzer: __init__ and _generate_transaction_data.           *)
(***************************************************************************)
\* inputs of the constructor; the source accepts any integer
SimplifiedVolumes == {-24, 0, 10, 24, 48}

Seeds == [kind : RngKinds, x : 0..MaxSeed]

base_hourly_volume == Norm(<<base_daily_volume, HoursPerDay>>)

\* start_date = datetime.now() - timedelta(days=90)
start_date == now - DaysSimplified * MinutesPerDay

\* current_date = start_date + timedelta(days=day)
current_date == start_date + day * MinutesPerDay

\* int(base_hourly_volume * hour_factor * day_factor * growth_factor * random_factor)
hourly_transactions(hf, df, gf, rf) ==
    TruncMul(RMul(RMul(base_hourly_volume, hf), df), RMul(gf, rf))

\* daily_total += hourly_transactions
accumulate_bug(total, tx) == tx

accumulate(total, tx) == total + tx

InitSimplified ==
    /\ variant = "simplified"
    /\ base_daily_volume \in SimplifiedVolumes
    /\ now \in Nows
    /\ rng \in Seeds
    /\ pc = "generate"
    /\ day = 0
    /\ hour = 0
    /\ daily_total = 0
    /\ hourly_data = <<>>
    /\ idx = 0
    /\ locals = NoLocals
    /\ historical_data = <<>>
    /\ base_stats = NoStats
    /\ calc = NoStats
    /\ stats = NoStats
    /\ storage = NoStats
    /\ metadata = NoStats
    /\ previous = <<>>

\* one iteration of "for hour in range(24)"
GenerateHour ==
    /\ variant = "simplified"
    /\ pc = "generate"
    /\ hour < HoursPerDay
    /\ LET hf == get_hour_factor_simplified(hour)
           df == get_day_factor_simplified(Weekday(current_date))
           gf == GrowthFactor(day)
           rf == RngLevel(rng, UniformLevels)
           tx == hourly_transactions(hf, df, gf, rf)
       IN  /\ hourly_data' = Append(hourly_data, tx)
           /\ daily_total' = accumulate(daily_total, tx)
           /\ locals' = [hour |-> hour, weekday |-> Weekday(current_date),
                         day |-> day, hour_factor |-> hf, day_factor |-> df,
                         growth_factor |-> gf, random_factor |-> rf,
                         count |-> tx]
    /\ rng' = RngNext(rng)
    /\ hour' = hour + 1
    /\ UNCHANGED <<variant, base_daily_volume, now, pc, day, idx,
                   historical_data, base_stats, calc, stats,
                   storage, metadata, previous>>

\* the end of one iteration of "for day in range(90)": data.append({...});
\* after the last one the list becomes self.historical_data
AppendDay ==
    /\ variant = "simplified"
    /\ pc = "generate"
    /\ hour = HoursPerDay
    /\ historical_data' = Append(historical_data,
            [date |-> DateOf(current_date),
             day_of_week |-> Weekday(current_date),
             is_weekend |-> Weekday(current_date) >= 5,
             daily_total |-> daily_total,
             hourly_data |-> hourly_data])
    /\ day' = day + 1
    /\ hour' = 0
    /\ daily_total' = 0
    /\ hourly_data' = <<>>
    /\ pc' = IF day + 1 = DaysSimplified THEN "ready" ELSE "generate"
    /\ UNCHANGED <<variant, base_daily_volume, now, rng, idx, locals,
                   base_stats, calc, stats,
                   storage, metadata, previous>>

(***************************************************************************)
(* Simplified analyzer: calculate_statistics.                              *)
(***************************************************************************)
\* sqrt(v) / m, kept symbolically; Sqrt(v) is sqrt(v) / 1
SqrtOver(v, m) == [sqrt_of |-> v, over |-> m]

Sqrt(v) == SqrtOver(v, R(1))

\* [day['daily_total'] for day in self.historical_data]
daily_volumes_of(data) == Materialize([k \in 1..Len(data) |-> data[k].daily_total])

\* hourly_volumes.extend(day['hourly_data']) for every day
hourly_volumes_of(data) ==
    Materialize([k \in 1..(Len(data) * HoursPerDay) |->
        data[((k - 1) \div HoursPerDay) + 1].hourly_data[((k - 1) % HoursPerDay) + 1]])

\* sum(xs) / len(xs)
Mean(xs) == Norm(<<SumSeq(xs), Len(xs)>>)

\* sum((x - mean) ** 2 for x in xs) / len(xs)
PopulationVariance(xs) ==
    LET m == Mean(xs)
    IN  RDiv(RSumSeq([k \in 1..Len(xs) |-> RSq(RSub(R(xs[k]), m))]), R(Len(xs)))

XMeanOneBased(n) == Norm(<<n, 2>>)

\* x_mean = (n - 1) / 2
XMean(n) == Norm(<<n - 1, 2>>)

\* numerator = sum((i - x_mean) * (daily_volumes[i] - y_mean) for i in range(n))
RegNumerator(dv) ==
    RSumSeq([k \in 1..Len(dv) |->
                RMul(RSub(R(k - 1), XMean(Len(dv))), RSub(R(dv[k]), Mean(dv)))])

\* denominator = sum((i - x_mean) ** 2 for i in range(n))
RegDenominator(dv) ==
    RSumSeq([k \in 1..Len(dv) |-> RSq(RSub(R(k - 1), XMean(Len(dv))))])

\* slope = numerator / denominator if denominator != 0 else 0
Slope(dv) ==
    IF RIsZero(RegDenominator(dv)) THEN R(0)
    ELSE RDiv(RegNumerator(dv), RegDenominator(dv))

\* intercept = y_mean - slope * x_mean
InterceptPlus(dv) == RAdd(Mean(dv), RMul(Slope(dv), XMean(Len(dv))))

Intercept(dv) == RSub(Mean(dv), RMul(Slope(dv), XMean(Len(dv))))

\* ss_res = sum((daily_volumes[i] - (slope * i + intercept)) ** 2 for i in range(n))
SSRes(dv) ==
    LET sl == Slope(dv)
        ic == Intercept(dv)
    IN  RSumSeq([k \in 1..Len(dv) |->
                    RSq(RSub(R(dv[k]), RAdd(RMul(sl, R(k - 1)), ic)))])

\* ss_tot = sum((daily_volumes[i] - y_mean) ** 2 for i in range(n))
SSTot(dv) ==
    LET m == Mean(dv)
    IN  RSumSeq([k \in 1..Len(dv) |-> RSq(RSub(R(dv[k]), m))])

\* the flat-series value, the requirement threshold and the synthetic value
RSquaredFlat == <<99, 100>>
RSquaredThreshold == <<19, 20>>
RSquaredSynthetic == <<79, 80>>

\* r_squared = 1 - (ss_res / ss_tot) if ss_tot != 0 else 0.99
RSquaredComputed(dv) ==
    IF RIsZero(SSTot(dv)) THEN RSquaredFlat
    ELSE RSub(R(1), RDiv(SSRes(dv), SSTot(dv)))

RSquaredUnadjusted(r) == r

\* if r_squared < 0.95: r_squared = 0.9875
RSquaredAdjusted(r) == IF RLess(r, RSquaredThreshold) THEN RSquaredSynthetic ELSE r

\* ma_w: for every i >= w - 1, sum(daily_volumes[i-w+1:i+1]) / w
MovingAverage(dv, w) ==
    Materialize([j \in 1..(IF Len(dv) >= w THEN Len(dv) - w + 1 ELSE 0) |->
        Norm(<<SumSeq(SubSeq(dv, j, j + w - 1)), w>>)])

\* ma[-1] if ma else daily_mean
LastOr(ma, default) == IF ma = <<>> THEN default ELSE ma[Len(ma)]

\* hourly_patterns[hour] += volume over every day
hourly_patterns_of(data) ==
    Materialize([h \in 1..HoursPerDay |->
        SumSeq([k \in 1..Len(data) |-> data[k].hourly_data[h]])])

\* [pattern / len(self.historical_data) for pattern in hourly_patterns]
hourly_averages_of(data) ==
    LET hourly_patterns == hourly_patterns_of(data)
    IN  Materialize([h \in 1..HoursPerDay |-> Norm(<<hourly_patterns[h], Len(data)>>)])

\* max(xs) of rationals
RMaxSeq(s) == s[CHOOSE i \in 1..Len(s) : \A j \in 1..Len(s) : RLeq(s[j], s[i])]

\* [day['daily_total'] for day in self.historical_data if day['is_weekend'] == weekend]
TotalsWhere(data, weekend) ==
    LET Keep(d) == d.is_weekend = weekend
    IN  daily_volumes_of(SelectSeq(data, Keep))

\* sum(vs) / len(vs) if vs else 0
MeanOrZero(vs) == IF vs = <<>> THEN R(0) ELSE Mean(vs)

\* weekend_avg / weekday_avg if weekday_avg != 0 else 0.65
weekend_ratio_of(data) ==
    LET weekend_avg == MeanOrZero(TotalsWhere(data, TRUE))
        weekday_avg == MeanOrZero(TotalsWhere(data, FALSE))
    IN  IF RIsZero(weekday_avg) THEN <<13, 20>> ELSE RDiv(weekend_avg, weekday_avg)

\* sorted(xs)[k - 1]: the k-th smallest value of xs
SortedAt(s, k) ==
    s[CHOOSE i \in 1..Len(s) :
        /\ Cardinality({j \in 1..Len(s) : RLess(s[j], s[i])}) < k
        /\ Cardinality({j \in 1..Len(s) : RLeq(s[j], s[i])}) >= k]

\* sorted(xs, reverse=True)[k - 1]: the k-th largest value of xs
SortedReverseAt(s, k) == SortedAt(s, Len(s) + 1 - k)

\* the members of a set of integers in increasing order, at most three of them
FirstThree(S) ==
    [n \in 1..(IF Cardinality(S) < 3 THEN Cardinality(S) ELSE 3) |->
        CHOOSE x \in S : Cardinality({y \in S : y < x}) = n - 1]

\* the hours strictly above the third largest average
peak_hours_strict(avgs) ==
    LET bound == SortedReverseAt(avgs, 3)
    IN  FirstThree({k - 1 : k \in {i \in 1..Len(avgs) : RLess(bound, avgs[i])}})

\* [i for i, avg in enumerate(avgs) if avg >= sorted(avgs, reverse=True)[2]][:3]
peak_hours_of(avgs) ==
    LET bound == SortedReverseAt(avgs, 3)
    IN  FirstThree({k - 1 : k \in {i \in 1..Len(avgs) : RLeq(bound, avgs[i])}})

\* [i for i, avg in enumerate(avgs) if avg <= sorted(avgs)[2]][:3]
low_activity_hours_of(avgs) ==
    LET bound == SortedAt(avgs, 3)
    IN  FirstThree({k - 1 : k \in {i \in 1..Len(avgs) : RLeq(avgs[i], bound)}})

\* sum(day['daily_total'] for day in self.historical_data if day['day_of_week'] == d)
WeekdayTotal(data, d) ==
    SumSeq([k \in 1..Len(data) |->
               IF data[k].day_of_week = d THEN data[k].daily_total ELSE 0])

\* max(range(7), key=...): the first weekday with the largest total
most_active_day_of(data) ==
    CHOOSE d \in 0..6 :
        /\ \A e \in 0..6 : WeekdayTotal(data, e) <= WeekdayTotal(data, d)
        /\ \A e \in 0..(d - 1) : WeekdayTotal(data, e) < WeekdayTotal(data, d)

\* min(range(7), key=...): the first weekday with the smallest total
least_active_day_of(data) ==
    CHOOSE d \in 0..6 :
        /\ \A e \in 0..6 : WeekdayTotal(data, e) >= WeekdayTotal(data, d)
        /\ \A e \in 0..(d - 1) : WeekdayTotal(data, e) > WeekdayTotal(data, d)

\* min(xs), max(xs) of integers
MinSeq(s) == s[CHOOSE i \in 1..Len(s) : \A j \in 1..Len(s) : s[i] <= s[j]]

MaxSeq(s) == s[CHOOSE i \in 1..Len(s) : \A j \in 1..Len(s) : s[j] <= s[i]]

\* windows of the two moving averages
WindowShort == 7
WindowLong == 30

\* the locals of calculate_statistics that the returned dict does not hold
trend_locals_of(data) ==
    LET dv == daily_volumes_of(data)
    IN  [slope |-> Slope(dv), intercept |-> Intercept(dv),
         ss_res |-> SSRes(dv), ss_tot |-> SSTot(dv),
         r_squared |-> RSquaredComputed(dv),
         ma_7 |-> MovingAverage(dv, WindowShort),
         ma_30 |-> MovingAverage(dv, WindowLong),
         hourly_averages |-> hourly_averages_of(data)]

\* peak_hour_multiplier = max(hourly_averages) / (sum(hourly_averages) / 24)
\* raises ZeroDivisionError when the averages sum to zero
peak_hour_divisor_of(data) ==
    RDiv(RSumSeq(hourly_averages_of(data)), R(HoursPerDay))

\* the dict returned by calculate_statistics, or the exception it raises
calculate_statistics_of(data) ==
    LET dv == daily_volumes_of(data)
        hv == hourly_volumes_of(data)
        daily_mean == Mean(dv)
        daily_variance == PopulationVariance(dv)
        hourly_mean == Mean(hv)
        hourly_variance == PopulationVariance(hv)
        avgs == hourly_averages_of(data)
    IN  IF RIsZero(peak_hour_divisor_of(data))
        THEN [error |-> "ZeroDivisionError"]
        ELSE [error |-> "none",
              current_daily_volume |-> Trunc(daily_mean),
              daily_std_deviation |-> Sqrt(daily_variance),
              daily_coefficient_variation |->
                  IF RIsZero(daily_mean) THEN Sqrt(R(0))
                  ELSE SqrtOver(daily_variance, daily_mean),
              min_daily_volume |-> MinSeq(dv),
              max_daily_volume |-> MaxSeq(dv),
              moving_average_7_day |-> LastOr(MovingAverage(dv, WindowShort), daily_mean),
              moving_average_30_day |-> LastOr(MovingAverage(dv, WindowLong), daily_mean),
              trend_r_squared |-> RSquaredAdjusted(RSquaredComputed(dv)),
              daily_growth_rate |-> Slope(dv),
              outlier_threshold_upper |->
                  [mean |-> daily_mean, times |-> 2, sqrt_of |-> daily_variance],
              outlier_threshold_lower |->
                  [mean |-> daily_mean, times |-> -2, sqrt_of |-> daily_variance],
              peak_hours |-> peak_hours_of(avgs),
              low_activity_hours |-> low_activity_hours_of(avgs),
              peak_hour_multiplier |-> RDiv(RMaxSeq(avgs), peak_hour_divisor_of(data)),
              weekend_vs_weekday_ratio |-> weekend_ratio_of(data),
              hourly_pattern_std |->
                  Sqrt(RDiv(RSumSeq([h \in 1..HoursPerDay |->
                                        RSq(RSub(avgs[h], hourly_mean))]),
                            R(HoursPerDay))),
              most_active_day |-> most_active_day_of(data),
              least_active_day |-> least_active_day_of(data),
              intraday_volatility |->
                  IF RIsZero(hourly_mean) THEN Sqrt(R(0))
                  ELSE SqrtOver(hourly_variance, hourly_mean)]

\* a statistics call that takes the latest day off the stored series
CalculateStatisticsDraining ==
    /\ variant = "simplified"
    /\ pc \in {"ready", "done"}
    /\ calc' = trend_locals_of(historical_data)
    /\ stats' = calculate_statistics_of(historical_data)
    /\ historical_data' = SubSeq(historical_data, 1, Len(historical_data) - 1)
    /\ pc' = IF pc = "ready" THEN "done" ELSE "again"
    /\ UNCHANGED <<variant, base_daily_volume, now, rng, day, hour, daily_total,
                   hourly_data, idx, locals, base_stats,
                   storage, metadata, previous>>

\* analyzer.calculate_statistics(): the first call on a constructed analyzer
\* (pc "ready") and a second call on the same analyzer (pc "done")
CalculateStatistics ==
    /\ variant = "simplified"
    /\ pc \in {"ready", "done"}
    /\ calc' = trend_locals_of(historical_data)
    /\ stats' = calculate_statistics_of(historical_data)
    /\ pc' = IF pc = "ready" THEN "done" ELSE "again"
    /\ UNCHANGED <<variant, base_daily_volume, now, rng, day, hour, daily_total,
                   hourly_data, idx, locals, historical_data, base_stats,
                   storage, metadata, previous>>

(***************************************************************************)
(* Full analyzer: __init__ and _generate_realistic_transaction_data.       *)
(***************************************************************************)
FullVolumes == {0, 1, 288}

FullNows ==
    { NowBase,                                   \* Monday 00:00
      NowBase + 4 * MinutesPerDay + 13 * 60 + 7  \* Friday 13:07
    }

\* dates = pd.date_range(start=now - 90 days, end=now, freq='5min'):
\* both ends belong to the range
dates_start == now - DaysFull * MinutesPerDay

dates_len == ((now - dates_start) \div IntervalMinutes) + 1

\* dates[k], k counted from 0
dates_at(k) == dates_start + k * IntervalMinutes

\* base = self.base_minutely_volume * 5
base_interval_volume ==
    RMul(Norm(<<base_daily_volume, HoursPerDay * 60>>), R(IntervalMinutes))

\* days_from_start = (timestamp - dates[0]).days
days_from_start(t) == (t - dates_at(0)) \div MinutesPerDay

\* tx_count = int(base * hour_factor * day_factor * growth_factor * random_factor)
\* tx_count = max(0, tx_count)
tx_count_of(hf, df, gf, rf) ==
    LET tx == Trunc(RMul(RMul(RMul(RMul(base_interval_volume, hf), df), gf), rf))
    IN  IF tx > 0 THEN tx ELSE 0

InitFull ==
    /\ variant = "full"
    /\ base_daily_volume \in FullVolumes
    /\ now \in FullNows
    /\ rng \in Seeds
    /\ pc = "generate"
    /\ day = 0
    /\ hour = 0
    /\ daily_total = 0
    /\ hourly_data = <<>>
    /\ idx = 0
    /\ locals = NoLocals
    /\ historical_data = <<>>
    /\ base_stats = NoStats
    /\ calc = NoStats
    /\ stats = NoStats
    /\ storage = NoStats
    /\ metadata = NoStats
    /\ previous = <<>>

\* one iteration of "for timestamp in dates"; after the last one the rows
\* become the DataFrame self.historical_data
GenerateTimestamp ==
    /\ variant = "full"
    /\ pc = "generate"
    /\ idx < dates_len
    /\ LET timestamp == dates_at(idx)
           hf == get_hour_factor_full(HourOf(timestamp))
           df == get_day_factor_full(Weekday(timestamp))
           gf == GrowthFactor(days_from_start(timestamp))
           rf == RngLevel(rng, NormalLevels)
           tx == tx_count_of(hf, df, gf, rf)
       IN  /\ historical_data' = Append(historical_data,
                   [timestamp |-> timestamp,
                    transaction_count |-> tx,
                    hour |-> HourOf(timestamp),
                    day_of_week |-> Weekday(timestamp),
                    is_weekend |-> Weekday(timestamp) >= 5])
           /\ locals' = [hour |-> HourOf(timestamp), weekday |-> Weekday(timestamp),
                         day |-> days_from_start(timestamp), hour_factor |-> hf,
                         day_factor |-> df, growth_factor |-> gf,
                         random_factor |-> rf, count |-> tx]
    /\ rng' = RngNext(rng)
    /\ idx' = idx + 1
    /\ pc' = IF idx + 1 = dates_len THEN "base_stats" ELSE "generate"
    /\ UNCHANGED <<variant, base_daily_volume, now, day, hour, daily_total,
                   hourly_data, base_stats, calc, stats,
                   storage, metadata, previous>>

(***************************************************************************)
(* numpy / pandas float arithmetic: division by zero gives nan or inf,     *)
(* the mean of nothing is nan, and nan propagates.                         *)
(***************************************************************************)
NaN == <<0, 0>>

IsNaN(x) == x[1] = 0 /\ x[2] = 0

IsFinite(x) == x[2] # 0

FDiv(x, y) ==
    IF IsNaN(x) \/ IsNaN(y) THEN NaN
    ELSE IF ~IsFinite(x) THEN (IF IsFinite(y) THEN x ELSE NaN)
    ELSE IF ~IsFinite(y) THEN <<0, 1>>
    ELSE IF y[1] = 0
         THEN (IF x[1] = 0 THEN NaN ELSE IF x[1] > 0 THEN <<1, 0>> ELSE <<-1, 0>>)
    ELSE RDiv(x, y)

FSub(x, y) ==
    IF IsNaN(x) \/ IsNaN(y) THEN NaN
    ELSE IF ~IsFinite(y) THEN (IF ~IsFinite(x) /\ x = y THEN NaN ELSE <<-y[1], 0>>)
    ELSE IF ~IsFinite(x) THEN x
    ELSE RSub(x, y)

(***************************************************************************)
(* Full analyzer: the pandas aggregations.                                 *)
(***************************************************************************)
\* the members of a set of integers in increasing order
SortedSet(S) ==
    [n \in 1..Cardinality(S) |-> CHOOSE x \in S : Cardinality({y \in S : y < x}) = n - 1]

\* sum of transaction_count over the rows that satisfy P
SumWhere(df, P(_)) ==
    SumSeq([k \in 1..Len(df) |-> IF P(df[k]) THEN df[k].transaction_count ELSE 0])

CountWhere(df, P(_)) == Cardinality({k \in 1..Len(df) : P(df[k])})

\* df[P]['transaction_count'].mean(): nan when no row satisfies P
MeanWhere(df, P(_)) == FDiv(R(SumWhere(df, P)), R(CountWhere(df, P)))

AnyRow(r) == TRUE

\* the keys of groupby(timestamp.dt.date), in increasing order
group_dates(df) == SortedSet({DateOf(df[k].timestamp) : k \in 1..Len(df)})

\* daily_data = groupby(timestamp.dt.date)['transaction_count'].sum()
SumOnDate(df, d) ==
    LET OnDate(r) == DateOf(r.timestamp) = d IN SumWhere(df, OnDate)

daily_data_of(df) ==
    LET ds == Materialize(group_dates(df))
    IN  Materialize([j \in 1..Len(ds) |-> SumOnDate(df, ds[j])])

\* the keys of groupby([timestamp.dt.date, timestamp.dt.hour]) in increasing
\* order, the key (date, hour) written date * 24 + hour
hourly_keys(df) ==
    SortedSet({DateOf(df[k].timestamp) * HoursPerDay + df[k].hour : k \in 1..Len(df)})

SumOnDateHour(df, key) ==
    LET OnDateHour(r) == DateOf(r.timestamp) * HoursPerDay + r.hour = key
    IN  SumWhere(df, OnDateHour)

\* hourly_data = groupby([date, hour])['transaction_count'].sum()
hourly_data_of(df) ==
    LET ks == Materialize(hourly_keys(df))
    IN  Materialize([j \in 1..Len(ks) |-> SumOnDateHour(df, ks[j])])

\* groupby('hour')['transaction_count'].mean(), hours in increasing order
MeanAtHour(df, h) ==
    LET AtHour(r) == r.hour = h IN MeanWhere(df, AtHour)

hourly_pattern_of(df) ==
    LET hs == Materialize(SortedSet({df[k].hour : k \in 1..Len(df)}))
    IN  Materialize([j \in 1..Len(hs) |-> MeanAtHour(df, hs[j])])

\* series.std(): the sample variance, divisor n - 1 (nan for one value)
SampleVariance(xs) ==
    LET m == Mean(xs)
    IN  FDiv(RSumSeq([k \in 1..Len(xs) |-> RSq(RSub(R(xs[k]), m))]), R(Len(xs) - 1))

IsWeekendRow(r) == r.is_weekend

IsWeekdayRow(r) == ~r.is_weekend

\* self.stats = TransactionStats(...)
calculate_base_statistics_of(df) ==
    LET dd == daily_data_of(df)
        overall == MeanWhere(df, AnyRow)
    IN  [error |-> "none",
         daily_volume |-> Trunc(Mean(dd)),
         hourly_avg |-> Mean(hourly_data_of(df)),
         minutely_avg |-> FDiv(overall, R(IntervalMinutes)),
         std_dev |-> Sqrt(SampleVariance(dd)),
         coefficient_variation |-> SqrtOver(SampleVariance(dd), Mean(dd)),
         peak_hour_multiplier |-> FDiv(RMaxSeq(hourly_pattern_of(df)), overall),
         weekend_reduction_factor |->
             FDiv(MeanWhere(df, IsWeekendRow), MeanWhere(df, IsWeekdayRow))]

CalculateBaseStatistics ==
    /\ variant = "full"
    /\ pc = "base_stats"
    /\ base_stats' = calculate_base_statistics_of(historical_data)
    /\ pc' = "ready"
    /\ UNCHANGED <<variant, base_daily_volume, now, rng, day, hour, daily_total,
                   hourly_data, idx, locals, historical_data, calc, stats,
                   storage, metadata, previous>>

(***************************************************************************)
(* Storage estimates: calculate_storage_requirements (simplified) and      *)
(* _calculate_storage_requirements (full).                                 *)
(***************************************************************************)
BytesPerTransaction == 200
BytesPerAggregate == 100
CompressionRaw == <<3, 10>>
CompressionAgg == <<1, 2>>
Mb == 1024 * 1024
DaysPerWeek == 7
DaysPerMonth == 30
FiveMinutePointsPerDay == 288
QuarterHourPointsPerDay == 96
HourlyPointsPerDay == 24
DailyPointsPerDay == 1

\* (n * bytes_per_aggregate * compression_agg) / mb
cached_mb(n) == RDiv(RMul(R(n * BytesPerAggregate), CompressionAgg), R(Mb))

\* (daily_volume * bytes_per_transaction * compression_raw) / mb
raw_mb(daily_volume) ==
    RDiv(RMul(R(daily_volume * BytesPerTransaction), CompressionRaw), R(Mb))

storage_estimate_monthly_week(daily_volume) ==
    [error |-> "none",
     raw_daily_mb |-> raw_mb(daily_volume),
     raw_weekly_mb |-> RMul(raw_mb(daily_volume), R(DaysPerWeek)),
     raw_monthly_mb |-> RMul(raw_mb(daily_volume), R(DaysPerWeek)),
     cached_5min_mb |-> cached_mb(FiveMinutePointsPerDay),
     cached_15min_mb |-> cached_mb(QuarterHourPointsPerDay),
     cached_hourly_mb |-> cached_mb(HourlyPointsPerDay),
     cached_daily_mb |-> cached_mb(DailyPointsPerDay)]

\* the dict returned by calculate_storage_requirements, for
\* daily_volume = self.base_daily_volume
storage_estimate_simplified(daily_volume) ==
    [error |-> "none",
     raw_daily_mb |-> raw_mb(daily_volume),
     raw_weekly_mb |-> RMul(raw_mb(daily_volume), R(DaysPerWeek)),
     raw_monthly_mb |-> RMul(raw_mb(daily_volume), R(DaysPerMonth)),
     cached_5min_mb |-> cached_mb(FiveMinutePointsPerDay),
     cached_15min_mb |-> cached_mb(QuarterHourPointsPerDay),
     cached_hourly_mb |-> cached_mb(HourlyPointsPerDay),
     cached_daily_mb |-> cached_mb(DailyPointsPerDay)]

\* the StorageEstimate returned by _calculate_storage_requirements, for
\* daily_volume = self.stats.daily_volume
storage_estimate_full(daily_volume) ==
    [error |-> "none",
     raw_daily_mb |-> raw_mb(daily_volume),
     raw_weekly_mb |-> RMul(raw_mb(daily_volume), R(DaysPerWeek)),
     raw_monthly_mb |-> RMul(raw_mb(daily_volume), R(DaysPerMonth)),
     cached_5min_mb |-> cached_mb(FiveMinutePointsPerDay),
     cached_15min_mb |-> cached_mb(QuarterHourPointsPerDay),
     cached_hourly_mb |-> cached_mb(HourlyPointsPerDay),
     cached_daily_mb |-> cached_mb(DailyPointsPerDay)]

\* analyzer.calculate_storage_requirements(), callable once the analyzer is
\* constructed
CalculateStorage ==
    /\ variant = "simplified"
    /\ pc \in {"ready", "done", "again"}
    /\ storage.error = "not_run"
    /\ storage' = storage_estimate_simplified(base_daily_volume)
    /\ UNCHANGED <<variant, base_daily_volume, now, rng, pc, day, hour,
                   daily_total, hourly_data, idx, locals, historical_data,
                   base_stats, calc, stats, metadata, previous>>

(***************************************************************************)
(* Full analyzer: analyze_patterns.                                        *)
(***************************************************************************)
\* coefficients = np.polyfit(x, y, 1) with x = 0..n-1: the least-squares line,
\* from the normal equations
polyfit_slope(ys) ==
    LET n == Len(ys)
        sx == SumSeq([k \in 1..n |-> k - 1])
        sxx == SumSeq([k \in 1..n |-> (k - 1) * (k - 1)])
        sy == SumSeq(ys)
        sxy == SumSeq([k \in 1..n |-> (k - 1) * ys[k]])
    IN  RDiv(R(n * sxy - sx * sy), R(n * sxx - sx * sx))

polyfit_intercept(ys) ==
    LET n == Len(ys)
        sx == SumSeq([k \in 1..n |-> k - 1])
    IN  RDiv(RSub(R(SumSeq(ys)), RMul(polyfit_slope(ys), R(sx))), R(n))

\* trend_line = np.polyval(coefficients, x)
trend_line_of(ys) ==
    LET sl == polyfit_slope(ys)
        ic == polyfit_intercept(ys)
    IN  Materialize([k \in 1..Len(ys) |-> RAdd(RMul(sl, R(k - 1)), ic)])

\* ss_res = np.sum((daily_data.values - trend_line) ** 2)
ss_res_full(ys) ==
    LET tl == trend_line_of(ys)
    IN  RSumSeq([k \in 1..Len(ys) |-> RSq(RSub(R(ys[k]), tl[k]))])

\* ss_tot = np.sum((daily_data.values - np.mean(daily_data.values)) ** 2)
ss_tot_full(ys) ==
    LET m == Mean(ys)
    IN  RSumSeq([k \in 1..Len(ys) |-> RSq(RSub(R(ys[k]), m))])

\* r_squared = 1 - (ss_res / ss_tot)
r_squared_full(ys) == FSub(R(1), FDiv(ss_res_full(ys), ss_tot_full(ys)))

\* daily_data.rolling(window=w).mean().iloc[-1]: nan until the window is full
rolling_mean_last(ys, w) ==
    IF Len(ys) < w THEN NaN
    ELSE Norm(<<SumSeq(SubSeq(ys, Len(ys) - w + 1, Len(ys))), w>>)

analyze_volume_patterns_of(df) ==
    LET dd == daily_data_of(df)
    IN  [current_daily_volume |-> Trunc(Mean(dd)),
         daily_std_deviation |-> Sqrt(SampleVariance(dd)),
         daily_coefficient_variation |-> SqrtOver(SampleVariance(dd), Mean(dd)),
         min_daily_volume |-> MinSeq(dd),
         max_daily_volume |-> MaxSeq(dd),
         moving_average_7_day |-> rolling_mean_last(dd, WindowShort),
         moving_average_30_day |-> rolling_mean_last(dd, WindowLong),
         trend_r_squared |-> r_squared_full(dd),
         daily_growth_rate |-> polyfit_slope(dd),
         outlier_threshold_upper |->
             [mean |-> Mean(dd), times |-> 2, sqrt_of |-> SampleVariance(dd)],
         outlier_threshold_lower |->
             [mean |-> Mean(dd), times |-> -2, sqrt_of |-> SampleVariance(dd)]]

\* the locals of _analyze_volume_patterns that the returned dict does not hold
volume_locals_of(df) ==
    LET dd == daily_data_of(df)
    IN  [daily_data |-> dd,
         slope |-> polyfit_slope(dd), intercept |-> polyfit_intercept(dd),
         ss_res |-> ss_res_full(dd), ss_tot |-> ss_tot_full(dd),
         r_squared |-> r_squared_full(dd),
         hourly_averages |-> hourly_pattern_of(df)]

\* series.nlargest(3).index.tolist(): by value, largest first, the first
\* occurrence first among equal values; positions counted from 0
nlargest_index(xs, n) ==
    [r \in 1..(IF Len(xs) < n THEN Len(xs) ELSE n) |->
        (CHOOSE i \in 1..Len(xs) :
            Cardinality({j \in 1..Len(xs) :
                \/ RLess(xs[i], xs[j])
                \/ (xs[j] = xs[i] /\ j < i)}) = r - 1) - 1]

\* series.nsmallest(3).index.tolist()
nsmallest_index(xs, n) ==
    [r \in 1..(IF Len(xs) < n THEN Len(xs) ELSE n) |->
        (CHOOSE i \in 1..Len(xs) :
            Cardinality({j \in 1..Len(xs) :
                \/ RLess(xs[j], xs[i])
                \/ (xs[j] = xs[i] /\ j < i)}) = r - 1) - 1]

\* the weekdays that occur in the data
weekdays_of(df) == {df[k].day_of_week : k \in 1..Len(df)}

MeanOnWeekday(df, d) ==
    LET OnWeekday(r) == r.day_of_week = d IN MeanWhere(df, OnWeekday)

\* daily_pattern.idxmax(): the first weekday with the largest mean
idxmax_weekday(df) ==
    CHOOSE d \in weekdays_of(df) :
        /\ \A e \in weekdays_of(df) : RLeq(MeanOnWeekday(df, e), MeanOnWeekday(df, d))
        /\ \A e \in weekdays_of(df) :
              e < d => RLess(MeanOnWeekday(df, e), MeanOnWeekday(df, d))

\* daily_pattern.idxmin(): the first weekday with the smallest mean
idxmin_weekday(df) ==
    CHOOSE d \in weekdays_of(df) :
        /\ \A e \in weekdays_of(df) : RLeq(MeanOnWeekday(df, d), MeanOnWeekday(df, e))
        /\ \A e \in weekdays_of(df) :
              e < d => RLess(MeanOnWeekday(df, d), MeanOnWeekday(df, e))

analyze_temporal_patterns_of(df) ==
    LET hourly_pattern == hourly_pattern_of(df)
        pattern_mean == RDiv(RSumSeq(hourly_pattern), R(Len(hourly_pattern)))
        pattern_variance ==
            FDiv(RSumSeq([k \in 1..Len(hourly_pattern) |->
                            RSq(RSub(hourly_pattern[k], pattern_mean))]),
                 R(Len(hourly_pattern) - 1))
    IN  [peak_hours |-> nlargest_index(hourly_pattern, 3),
         low_activity_hours |-> nsmallest_index(hourly_pattern, 3),
         peak_hour_multiplier |-> FDiv(RMaxSeq(hourly_pattern), pattern_mean),
         weekend_vs_weekday_ratio |->
             FDiv(MeanWhere(df, IsWeekendRow), MeanWhere(df, IsWeekdayRow)),
         hourly_pattern_std |-> Sqrt(pattern_variance),
         most_active_day |-> idxmax_weekday(df),
         least_active_day |-> idxmin_weekday(df),
         intraday_volatility |-> SqrtOver(pattern_variance, pattern_mean)]

\* analyze_patterns: the volume and temporal parts of the result
AnalyzePatterns ==
    /\ variant = "full"
    /\ pc \in {"ready", "done"}
    /\ calc' = volume_locals_of(historical_data)
    /\ storage' = storage_estimate_full(base_stats.daily_volume)
    /\ stats' = [error |-> "none",
                 volume_analysis |-> analyze_volume_patterns_of(historical_data),
                 temporal_patterns |-> analyze_temporal_patterns_of(historical_data)]
    /\ pc' = IF pc = "ready" THEN "done" ELSE "again"
    /\ UNCHANGED <<variant, base_daily_volume, now, rng, day, hour, daily_total,
                   hourly_data, idx, locals, historical_data, base_stats,
                   metadata, previous>>

(***************************************************************************)
(* Simplified analyzer: the analysis data written by                       *)
(* generate_comprehensive_report.                                          *)
(***************************************************************************)
AnalysisPeriodDays == 90

\* the flag with the synthetic value as its threshold
r_squared_requirement_met_above_synthetic(trend_r_squared) ==
    RLess(RSquaredSynthetic, trend_r_squared)

\* stats['volume_analysis']['trend_r_squared'] > 0.95
r_squared_requirement_met_of(trend_r_squared) ==
    RLess(RSquaredThreshold, trend_r_squared)

\* analysis_data['metadata'], built after the statistics and the storage
\* estimate have been computed (report_generated, a clock reading, left out)
ExportAnalysisData ==
    /\ variant = "simplified"
    /\ pc = "done"
    /\ stats.error = "none"
    /\ storage.error = "none"
    /\ metadata.error = "not_run"
    /\ metadata' = [error |-> "none",
                    base_daily_volume |-> base_daily_volume,
                    analysis_period_days |-> AnalysisPeriodDays,
                    r_squared_requirement_met |->
                        r_squared_requirement_met_of(stats.trend_r_squared)]
    /\ UNCHANGED <<variant, base_daily_volume, now, rng, pc, day, hour,
                   daily_total, hourly_data, idx, locals, historical_data,
                   base_stats, calc, stats, storage, previous>>

Init == InitSimplified \/ InitFull

Next ==
    \/ GenerateHour
    \/ AppendDay
    \/ CalculateStatistics
    \/ CalculateStorage
    \/ ExportAnalysisData
    \/ GenerateTimestamp
    \/ CalculateBaseStatistics
    \/ AnalyzePatterns

Spec == Init /\ [][Next]_vars

(***************************************************************************)
(* Properties.                                                             *)
(***************************************************************************)
\* the series is complete: self.historical_data has been assigned
Generated == pc \in {"base_stats", "ready", "done", "again"}

\* the statistics call has returned or raised
Analyzed == pc \in {"done", "again"}

IntervalsPerDaySimplified == HoursPerDay

IntervalsPerDayFull == MinutesPerDay \div IntervalMinutes

\* C1: for base_daily_volume > 0 the generated series holds exactly
\* days x intervals_per_day points, its timestamps increase strictly and
\* consecutive points are exactly one interval apart (simplified: one record
\* of 24 hourly values per consecutive date; full: one row per 5 minutes).
C1_SeriesCoversWholeDays ==
    (Generated /\ base_daily_volume > 0) =>
        IF variant = "simplified"
        THEN /\ SumSeq([k \in 1..Len(historical_data) |->
                           Len(historical_data[k].hourly_data)])
                    = DaysSimplified * IntervalsPerDaySimplified
             /\ \A k \in 1..Len(historical_data) :
                    Len(historical_data[k].hourly_data) = IntervalsPerDaySimplified
             /\ \A k \in 1..(Len(historical_data) - 1) :
                    historical_data[k + 1].date = historical_data[k].date + 1
        ELSE /\ Len(historical_data) = DaysFull * IntervalsPerDayFull
             /\ \A k \in 1..(Len(historical_data) - 1) :
                    historical_data[k + 1].timestamp
                        = historical_data[k].timestamp + IntervalMinutes

\* C2: aggregation is lossless. Simplified: the running daily_total is the
\* sum of the hourly values appended so far, every record's daily_total is
\* the sum of its hourly_data and the daily totals add up to the sum of all
\* hourly values. Full: every date's daily sum is the sum of that date's
\* hourly sums and the daily sums add up to the sum of all interval counts.
C2_AggregationLossless ==
    /\ variant = "simplified" =>
          /\ daily_total = SumSeq(hourly_data)
          /\ \A k \in 1..Len(historical_data) :
                historical_data[k].daily_total = SumSeq(historical_data[k].hourly_data)
          /\ Generated =>
                SumSeq(daily_volumes_of(historical_data))
                    = SumSeq(hourly_volumes_of(historical_data))
    /\ (variant = "full" /\ pc = "ready") =>
          LET dd == daily_data_of(historical_data)
              ds == Materialize(group_dates(historical_data))
              hd == hourly_data_of(historical_data)
              ks == Materialize(hourly_keys(historical_data))
          IN  /\ SumSeq(dd) = SumSeq([k \in 1..Len(historical_data) |->
                                          historical_data[k].transaction_count])
              /\ \A j \in 1..Len(ds) :
                    dd[j] = SumSeq([i \in 1..Len(ks) |->
                                IF ks[i] \div HoursPerDay = ds[j] THEN hd[i] ELSE 0])

\* C2 witness: a finished simplified series with varying noise and a
\* positive grand total
C2_Witness ==
    /\ variant = "simplified"
    /\ Generated
    /\ rng.kind = "lcg"
    /\ SumSeq(daily_volumes_of(historical_data)) > 0
    /\ \E k \in 1..Len(historical_data) :
          historical_data[k].daily_total # historical_data[1].daily_total

\* base_volume * hourFactor * dayFactor * growthFactor * noiseFactor of the
\* last interval generated
LastProduct ==
    RMul(RMul(RMul(RMul(IF variant = "simplified" THEN base_hourly_volume
                        ELSE base_interval_volume,
                        locals.hour_factor), locals.day_factor),
              locals.growth_factor), locals.random_factor)

\* the count stored by the last loop iteration, while it is still in reach
LastStored ==
    IF variant = "full" THEN historical_data[Len(historical_data)].transaction_count
    ELSE IF hourly_data # <<>> THEN hourly_data[Len(hourly_data)]
    ELSE historical_data[Len(historical_data)].hourly_data[HoursPerDay]

\* C3: whatever noise factor is drawn, every interval count the generator
\* produces is an integer >= 0: it is the floor of the product of the five
\* factors, and 0 when that product is negative.
C3_CountsNonNegative ==
    locals.hour >= 0 =>
        /\ locals.count >= 0
        /\ locals.count = (IF RLess(LastProduct, R(0)) THEN 0 ELSE Floor(LastProduct))
        /\ LastStored = locals.count

\* a symbolic sqrt(v) / m has a value
SymDefined(v) == IsFinite(v.sqrt_of) /\ IsFinite(v.over) /\ v.over[1] # 0

\* C4: for every dataset generated from a base_daily_volume > 0 the
\* statistics call completes and every field it divides for has a defined
\* value (no exception, no nan, no inf).
C4_StatisticsAlwaysDefined ==
    (Analyzed /\ base_daily_volume > 0) =>
        IF variant = "simplified" THEN stats.error = "none"
        ELSE /\ IsFinite(stats.volume_analysis.trend_r_squared)
             /\ SymDefined(stats.volume_analysis.daily_coefficient_variation)
             /\ IsFinite(stats.temporal_patterns.peak_hour_multiplier)
             /\ IsFinite(base_stats.peak_hour_multiplier)
             /\ SymDefined(base_stats.coefficient_variation)
             /\ (\E k \in 1..Len(historical_data) : historical_data[k].is_weekend)
                    /\ (\E k \in 1..Len(historical_data) : ~historical_data[k].is_weekend)
                 => IsFinite(stats.temporal_patterns.weekend_vs_weekday_ratio)

\* C5: a non-positive base_daily_volume is rejected before any data point
\* is generated: no series and no statistics exist for it.
C5_NonPositiveVolumeRejected ==
    base_daily_volume <= 0 =>
        /\ historical_data = <<>>
        /\ hourly_data = <<>>
        /\ base_stats.error = "not_run"
        /\ stats.error = "not_run"

\* calculate_statistics returned its dict
Reported == variant = "simplified" /\ Analyzed /\ stats.error = "none"

ConstructorOptions == {"base_daily_volume"}

\* C7: the R-squared floor is applied only under a configuration flag the
\* caller can turn off: a caller that has not switched the floor on gets the
\* value computed from the data.
C7_FloorOnlyUnderFlag ==
    (Reported /\ "r_squared_floor" \notin ConstructorOptions) =>
        stats.trend_r_squared = calc.r_squared

\* C8: for every daily-total sequence with SS_tot # 0 the R-squared of the
\* least-squares fit, before any override, lies in [0, 1]:
\* 0 <= SS_res <= SS_tot.  (Stated of the exact values of both fits; the
\* rounding of floating point is not modelled.)
C8_ComputedRSquaredInUnitInterval ==
    (Analyzed /\ ~RIsZero(calc.ss_tot)) =>
        /\ RLeq(R(0), calc.ss_res)
        /\ RLeq(calc.ss_res, calc.ss_tot)
        /\ RLeq(R(0), calc.r_squared)
        /\ RLeq(calc.r_squared, R(1))

\* C8 witness: a series that is neither flat nor on a line, so that
\* 0 < SS_res < SS_tot
C8_Witness ==
    /\ Analyzed
    /\ RLess(R(0), calc.ss_res)
    /\ RLess(calc.ss_res, calc.ss_tot)
    /\ RLess(R(0), calc.r_squared)
    /\ RLess(calc.r_squared, R(1))

\* C9: when all daily totals are equal (SS_tot = 0) the trend computation
\* does not divide by zero and the trend_r_squared it yields is exactly 0.99,
\* not the 0.9875 of the floor.
C9_FlatSeriesRSquared ==
    (Analyzed /\ base_daily_volume > 0 /\ RIsZero(calc.ss_tot)) =>
        IF variant = "simplified"
        THEN /\ RSquaredAdjusted(calc.r_squared) = <<99, 100>>
             /\ stats.error = "none" => stats.trend_r_squared = <<99, 100>>
        ELSE stats.volume_analysis.trend_r_squared = <<99, 100>>

\* C10: _get_hour_factor is 1.8 for hours 9,10,11,14,15,16, 1.3 for the
\* other hours of 7..18, 1.1 for 20..23, 0.4 for 0..6 and 1.0 for hour 19;
\* both implementations return that value for every hour of 0..23, and it is
\* the factor the generators use.
C10_HourFactorTable ==
    LET expected(h) ==
            IF h \in {9, 10, 11, 14, 15, 16} THEN <<9, 5>>
            ELSE IF h \in {7, 8, 12, 13, 17, 18} THEN <<13, 10>>
            ELSE IF h \in 20..23 THEN <<11, 10>>
            ELSE IF h \in 0..6 THEN <<2, 5>>
            ELSE <<1, 1>>
    IN  /\ \A h \in 0..(HoursPerDay - 1) :
               /\ get_hour_factor_simplified(h) = expected(h)
               /\ get_hour_factor_full(h) = expected(h)
        /\ locals.hour \in 0..(HoursPerDay - 1) =>
               locals.hour_factor = expected(locals.hour)

\* C10 witness: the generator has just used the default factor of hour 19
C10_Witness ==
    /\ locals.hour = 19
    /\ locals.hour_factor = <<1, 1>>
    /\ locals.count > 0

\* the record or row appended last
LastRecord == historical_data[Len(historical_data)]

\* the last loop iteration belongs to the record or row appended last
LastRecordIsCurrent ==
    /\ historical_data # <<>>
    /\ locals.hour >= 0
    /\ variant = "simplified" => hour = 0

\* C11: _get_day_factor returns 1.0 for the weekday indices 0..4 and 0.65 for
\* 5..6 in both implementations, and a generated record's is_weekend flag is
\* true exactly when its day factor is 0.65, that is when day_of_week >= 5.
C11_DayFactorAndWeekendFlag ==
    /\ \A wd \in 0..6 :
           LET expected == IF wd \in 0..4 THEN <<1, 1>> ELSE <<13, 20>>
           IN  /\ get_day_factor_simplified(wd) = expected
               /\ get_day_factor_full(wd) = expected
    /\ LastRecordIsCurrent =>
           /\ LastRecord.day_of_week = locals.weekday
           /\ LastRecord.is_weekend <=> (locals.day_factor = <<13, 20>>)
           /\ LastRecord.is_weekend <=> (LastRecord.day_of_week >= 5)

\* C11 witness: a Saturday or Sunday record, generated with the factor 0.65
C11_Witness ==
    /\ LastRecordIsCurrent
    /\ LastRecord.is_weekend
    /\ locals.day_factor = <<13, 20>>
    /\ locals.count > 0

\* the 0-based day index of the interval generated last
LastDayIndex ==
    IF variant = "simplified"
    THEN (IF hourly_data # <<>> THEN Len(historical_data) ELSE Len(historical_data) - 1)
    ELSE (Len(historical_data) - 1) \div IntervalsPerDayFull

\* C12: the growth factor of every generated interval is 1 + 0.03 * d / 30
\* for the 0-based day index d of the interval: exactly 1 on day 0 and 0.001
\* more on each successive day, linearly and without compounding.
C12_GrowthFactorLinear ==
    locals.hour >= 0 =>
        /\ locals.day = LastDayIndex
        /\ locals.growth_factor = Norm(<<1000 + locals.day, 1000>>)
        /\ locals.day = 0 => locals.growth_factor = <<1, 1>>
        /\ locals.day > 0 =>
               RSub(locals.growth_factor, GrowthFactor(locals.day - 1)) = <<1, 1000>>

\* C12 witness: an interval of the third day, grown by 0.002
C12_Witness ==
    /\ locals.hour >= 0
    /\ locals.day = 2
    /\ locals.growth_factor = <<501, 500>>
    /\ locals.count > 0

(***************************************************************************)
(* The generators' loop body with every factor held at 1.0: no noise, no   *)
(* hour, day or growth effect.  One day of intervals is accumulated.       *)
(***************************************************************************)
\* def __init__(self, base_daily_volume: int = 94301)
DefaultDailyVolume == 94301

IdentityVolumes == {24, 1440, DefaultDailyVolume}

InitIdentity ==
    /\ variant \in {"simplified", "full"}
    /\ base_daily_volume \in IdentityVolumes
    /\ now = NowBase
    /\ rng = [kind |-> "fixed", x |-> 0]
    /\ pc = "identity"
    /\ day = 0
    /\ hour = 0
    /\ daily_total = 0
    /\ hourly_data = <<>>
    /\ idx = 0
    /\ locals = NoLocals
    /\ historical_data = <<>>
    /\ base_stats = NoStats
    /\ calc = NoStats
    /\ stats = NoStats
    /\ storage = NoStats
    /\ metadata = NoStats
    /\ previous = <<>>

\* the intervals of one day
IntervalsPerDay ==
    IF variant = "simplified" THEN IntervalsPerDaySimplified ELSE IntervalsPerDayFull

\* one interval: the count is truncated and added to the day's total
GenerateIdentityInterval ==
    /\ pc = "identity"
    /\ hour < IntervalsPerDay
    /\ LET one == R(1)
           tx == IF variant = "simplified"
                 THEN hourly_transactions(one, one, one, one)
                 ELSE tx_count_of(one, one, one, one)
       IN  /\ hourly_data' = Append(hourly_data, tx)
           /\ daily_total' = accumulate(daily_total, tx)
           /\ locals' = [hour |-> hour, weekday |-> Weekday(now), day |-> 0,
                         hour_factor |-> one, day_factor |-> one,
                         growth_factor |-> one, random_factor |-> one,
                         count |-> tx]
    /\ hour' = hour + 1
    /\ UNCHANGED <<variant, base_daily_volume, now, rng, pc, day, idx,
                   historical_data, base_stats, calc, stats,
                   storage, metadata, previous>>

NextIdentity == GenerateIdentityInterval

SpecIdentity == InitIdentity /\ [][NextIdentity]_vars

\* C13: with the noise and the hour, day and growth factors all 1.0, the
\* daily_total generated for base_daily_volume = 94301 is exactly 94301: the
\* truncation of each interval to an integer loses nothing.
C13_IdentityDailyTotal ==
    (pc = "identity" /\ base_daily_volume = DefaultDailyVolume
        /\ hour = IntervalsPerDay) =>
        daily_total = DefaultDailyVolume

\* the statistics call returned a result
Returned == Analyzed /\ stats.error = "none"

\* the temporal_patterns part of the result
TemporalPatterns ==
    IF variant = "simplified" THEN stats ELSE stats.temporal_patterns

\* the volume_analysis part of the result
VolumeAnalysis ==
    IF variant = "simplified" THEN stats ELSE stats.volume_analysis

\* C14: peak_hours is the 3 hour indices with the largest hourly averages,
\* ties going to the lower index, so it contains an hour of maximal average;
\* low_activity_hours is the 3 indices with the smallest averages under the
\* same tie rule, so it contains an hour of minimal average.
C14_PeakAndLowHours ==
    (Returned /\ base_daily_volume > 0) =>
        LET avgs == calc.hourly_averages
            n == Len(avgs)
            Before(i, j) == RLess(avgs[i], avgs[j]) \/ (avgs[j] = avgs[i] /\ j < i)
            After(i, j) == RLess(avgs[j], avgs[i]) \/ (avgs[j] = avgs[i] /\ j < i)
            largest == {i - 1 : i \in {i \in 1..n :
                            Cardinality({j \in 1..n : Before(i, j)}) < 3}}
            smallest == {i - 1 : i \in {i \in 1..n :
                            Cardinality({j \in 1..n : After(i, j)}) < 3}}
            peak == TemporalPatterns.peak_hours
            low == TemporalPatterns.low_activity_hours
        IN  /\ {peak[k] : k \in 1..Len(peak)} = largest
            /\ {low[k] : k \in 1..Len(low)} = smallest
            /\ \E k \in 1..Len(peak) : \A j \in 1..n : RLeq(avgs[j], avgs[peak[k] + 1])
            /\ \E k \in 1..Len(low) : \A j \in 1..n : RLeq(avgs[low[k] + 1], avgs[j])

\* a float that is a number and at least 1.0
AtLeastOne(x) == IsFinite(x) /\ RLeq(R(1), x)

\* C15: for every dataset the generator produces, the reported
\* peak_hour_multiplier (the maximum hourly average divided by the mean of
\* the 24 hourly averages) is >= 1.0.
C15_PeakHourMultiplierAtLeastOne ==
    (Returned /\ base_daily_volume > 0) =>
        /\ AtLeastOne(TemporalPatterns.peak_hour_multiplier)
        /\ variant = "full" => AtLeastOne(base_stats.peak_hour_multiplier)

\* the daily totals the trend and the moving averages are computed from
DailyTotals ==
    IF variant = "simplified" THEN daily_volumes_of(historical_data)
    ELSE calc.daily_data

\* the number of intervals that went into the k-th daily total
IntervalsOfDay(k) ==
    IF variant = "simplified" THEN Len(historical_data[k].hourly_data)
    ELSE LET d == group_dates(historical_data)[k]
             OnDate(r) == DateOf(r.timestamp) = d
         IN  CountWhere(historical_data, OnDate)

\* C16: the w-day moving average (w = 7, 30) has no value for day indices
\* below w - 1; for every later day i it is the mean of the daily totals of
\* the days i-w+1..i, each of them a complete day; the reported
\* 7_day_moving_average and 30_day_moving_average are the values of the last
\* day.
C16_MovingAverages ==
    (Returned /\ base_daily_volume > 0) =>
        LET dv == DailyTotals
            n == Len(dv)
            WindowMean(i, w) == Norm(<<SumSeq(SubSeq(dv, i - w + 1, i)), w>>)
            Holds(w, series, reported) ==
                /\ n < w => (IF variant = "simplified" THEN series = <<>>
                             ELSE IsNaN(reported))
                /\ n >= w =>
                       /\ reported = WindowMean(n, w)
                       /\ variant = "simplified" =>
                              /\ Len(series) = n - w + 1
                              /\ \A i \in w..n : series[i - w + 1] = WindowMean(i, w)
        IN  /\ Holds(WindowShort, IF variant = "simplified" THEN calc.ma_7 ELSE <<>>,
                     VolumeAnalysis.moving_average_7_day)
            /\ Holds(WindowLong, IF variant = "simplified" THEN calc.ma_30 ELSE <<>>,
                     VolumeAnalysis.moving_average_30_day)
            /\ \A k \in 1..n : IntervalsOfDay(k) = IntervalsPerDay

\* C17: the reported daily_std_deviation is the population standard
\* deviation of the daily totals (squared deviations summed and divided by N,
\* not N - 1) and outlier_threshold_upper / _lower are the daily mean plus /
\* minus 2 times that deviation, in both implementations.
C17_PopulationStdAndThresholds ==
    (Returned /\ base_daily_volume > 0) =>
        LET dv == DailyTotals
            n == Len(dv)
            mean == Norm(<<SumSeq(dv), n>>)
            variance == RDiv(RSumSeq([k \in 1..n |-> RSq(RSub(R(dv[k]), mean))]), R(n))
        IN  /\ VolumeAnalysis.daily_std_deviation = Sqrt(variance)
            /\ VolumeAnalysis.outlier_threshold_upper =
                   [mean |-> mean, times |-> 2, sqrt_of |-> variance]
            /\ VolumeAnalysis.outlier_threshold_lower =
                   [mean |-> mean, times |-> -2, sqrt_of |-> variance]

\* C18: the reported daily_growth_rate is the ordinary-least-squares slope of
\* the daily totals y_0..y_(N-1) against the day index: sum (i - xbar)(y_i -
\* ybar) over sum (i - xbar)^2 with xbar = (N - 1) / 2; the intercept is
\* ybar - slope * xbar, and the residuals of the fitted line sum to zero.
C18_LeastSquaresFit ==
    Analyzed =>
        LET dv == DailyTotals
            n == Len(dv)
            xbar == Norm(<<n - 1, 2>>)
            ybar == Norm(<<SumSeq(dv), n>>)
            num == RSumSeq([k \in 1..n |->
                       RMul(RSub(R(k - 1), xbar), RSub(R(dv[k]), ybar))])
            den == RSumSeq([k \in 1..n |-> RSq(RSub(R(k - 1), xbar))])
            slope == RDiv(num, den)
        IN  n >= 2 =>
                /\ calc.slope = slope
                /\ calc.intercept = RSub(ybar, RMul(slope, xbar))
                /\ Returned => VolumeAnalysis.daily_growth_rate = slope
                /\ RIsZero(RSumSeq([k \in 1..n |->
                       RSub(R(dv[k]),
                            RAdd(RMul(calc.slope, R(k - 1)), calc.intercept))]))

\* C18 witness: a fit with a non-zero slope that does not pass through the
\* points
C18_Witness ==
    /\ Returned
    /\ ~RIsZero(calc.slope)
    /\ ~RIsZero(calc.ss_res)
    /\ VolumeAnalysis.daily_growth_rate = calc.slope

\* whether the k-th daily total is that of a Saturday or Sunday
IsWeekendDay(k) ==
    IF variant = "simplified" THEN historical_data[k].is_weekend
    ELSE WeekdayOfDate(group_dates(historical_data)[k]) >= 5

\* C19: weekend_vs_weekday_ratio is the mean of the weekend days' daily
\* totals divided by the mean of the weekday days' daily totals, and exactly
\* 0.65 whenever the weekday mean is zero, in both implementations.
C19_WeekendRatio ==
    (Returned /\ base_daily_volume > 0) =>
        LET dv == DailyTotals
            weekend == {k \in 1..Len(dv) : IsWeekendDay(k)}
            weekdays == {k \in 1..Len(dv) : ~IsWeekendDay(k)}
            Total(S) == SumSeq([k \in 1..Len(dv) |-> IF k \in S THEN dv[k] ELSE 0])
            MeanOf(S) == Norm(<<Total(S), Cardinality(S)>>)
            ratio == TemporalPatterns.weekend_vs_weekday_ratio
        IN  (weekend # {} /\ weekdays # {}) =>
                IF RIsZero(MeanOf(weekdays)) THEN ratio = <<13, 20>>
                ELSE ratio = RDiv(MeanOf(weekend), MeanOf(weekdays))

\* the volume of the whole period that falls on weekday d
VolumeOnWeekday(d) ==
    IF variant = "simplified" THEN WeekdayTotal(historical_data, d)
    ELSE LET OnWeekday(r) == r.day_of_week = d
         IN  SumWhere(historical_data, OnWeekday)

\* the weekday indices that compete: range(7) in the simplified analyzer,
\* the weekdays present in the frame in the full one (all seven as soon as
\* the period covers a week)
CompetingWeekdays ==
    IF variant = "simplified" THEN 0..6 ELSE weekdays_of(historical_data)

\* C20: most_active_day is the weekday index 0..6 whose daily totals summed
\* over the whole period are largest and least_active_day the one whose sum
\* is smallest, ties going to the lowest index, in both implementations.
C20_MostAndLeastActiveDay ==
    (Returned /\ base_daily_volume > 0) =>
        LET days == CompetingWeekdays
            total == [d \in days |-> VolumeOnWeekday(d)]
            most == CHOOSE d \in days :
                        /\ \A e \in days : total[e] <= total[d]
                        /\ \A e \in days : total[e] = total[d] => d <= e
            least == CHOOSE d \in days :
                        /\ \A e \in days : total[d] <= total[e]
                        /\ \A e \in days : total[e] = total[d] => d <= e
        IN  /\ TemporalPatterns.most_active_day = most
            /\ TemporalPatterns.least_active_day = least

(***************************************************************************)
(* Storage estimates.                                                      *)
(***************************************************************************)
\* the daily volume the estimate was computed for
StorageVolume ==
    IF variant = "simplified" THEN base_daily_volume
    ELSE base_stats.daily_volume

\* C21: for every daily volume v >= 0 the estimate is
\* raw_daily_mb = v * 200 * 0.3 / 2^20, raw_weekly_mb = 7 * raw_daily_mb,
\* raw_monthly_mb = 30 * raw_daily_mb, and the cached figures are
\* k * 100 * 0.5 / 2^20 for k = 288, 96, 24, 1, in strictly decreasing order.
C21_StorageFigures ==
    (storage.error = "none" /\ StorageVolume >= 0) =>
        LET v == StorageVolume
            two20 == 1048576
        IN  /\ storage.raw_daily_mb = Norm(<<v * 200 * 3, 10 * two20>>)
            /\ storage.raw_weekly_mb = Norm(<<7 * v * 200 * 3, 10 * two20>>)
            /\ storage.raw_monthly_mb = Norm(<<30 * v * 200 * 3, 10 * two20>>)
            /\ storage.cached_5min_mb = Norm(<<288 * 100, 2 * two20>>)
            /\ storage.cached_15min_mb = Norm(<<96 * 100, 2 * two20>>)
            /\ storage.cached_hourly_mb = Norm(<<24 * 100, 2 * two20>>)
            /\ storage.cached_daily_mb = Norm(<<1 * 100, 2 * two20>>)
            /\ RLess(storage.cached_15min_mb, storage.cached_5min_mb)
            /\ RLess(storage.cached_hourly_mb, storage.cached_15min_mb)
            /\ RLess(storage.cached_daily_mb, storage.cached_hourly_mb)

C21_Witness ==
    /\ storage.error = "none"
    /\ variant = "simplified"
    /\ StorageVolume > 0
    /\ RLess(storage.raw_weekly_mb, storage.raw_monthly_mb)

\* C22: the estimate for daily volume 0 has every MB figure, the three raw
\* ones and the four cached ones, equal to 0.
C22_ZeroVolumeZeroStorage ==
    (storage.error = "none" /\ StorageVolume = 0) =>
        /\ RIsZero(storage.raw_daily_mb)
        /\ RIsZero(storage.raw_weekly_mb)
        /\ RIsZero(storage.raw_monthly_mb)
        /\ RIsZero(storage.cached_5min_mb)
        /\ RIsZero(storage.cached_15min_mb)
        /\ RIsZero(storage.cached_hourly_mb)
        /\ RIsZero(storage.cached_daily_mb)

\* C23: the estimate depends on the configured base_daily_volume and the
\* constants only, whatever the random series, and both analyzers return
\* the same figures for the same base_daily_volume.
C23_StorageOfConfiguredVolume ==
    storage.error = "none" => storage = storage_estimate_simplified(base_daily_volume)

(***************************************************************************)
(* Repeated statistics calls.                                              *)
(***************************************************************************)
\* C24: calling the statistics twice on the same analyzer returns identical
\* results, and a statistics call leaves the stored historical data
\* unchanged.
C24_StatisticsRepeatable ==
    [][/\ (pc = "done" /\ pc' = "again") => stats' = stats
       /\ (pc = "ready" /\ pc' = "done") => historical_data' = historical_data
       /\ (pc = "done" /\ pc' = "again") => historical_data' = historical_data]_vars

C24_Witness ==
    /\ pc = "again"
    /\ stats.error = "none"
    /\ Len(historical_data) > 0

(***************************************************************************)
(* Two analyzers constructed one after the other in the same process.      *)
(* __init__ takes base_daily_volume only; the noise is drawn from the      *)
(* module-level generators (random.uniform, np.random.normal), whose state *)
(* is not reset by a construction.                                         *)
(***************************************************************************)
InitRerun == Init /\ now = NowBase

\* LiskTransactionAnalyzer(base_daily_volume) called again with the same
\* argument; the series of the first analyzer is kept in previous
Reconstruct ==
    /\ pc = "ready"
    /\ previous = <<>>
    /\ previous' = historical_data
    /\ historical_data' = <<>>
    /\ pc' = "generate"
    /\ day' = 0
    /\ hour' = 0
    /\ daily_total' = 0
    /\ hourly_data' = <<>>
    /\ idx' = 0
    /\ locals' = NoLocals
    /\ base_stats' = NoStats
    /\ UNCHANGED <<variant, base_daily_volume, now, rng, calc, stats,
                   storage, metadata>>

NextRerun ==
    \/ GenerateHour
    \/ AppendDay
    \/ GenerateTimestamp
    \/ CalculateBaseStatistics
    \/ Reconstruct

SpecRerun == InitRerun /\ [][NextRerun]_vars

\* C25: generation is reproducible: two constructions with the same
\* base_daily_volume and the same random source produce identical series.
C25_GenerationReproducible ==
    (pc = "ready" /\ Len(previous) > 0) => historical_data = previous

(***************************************************************************)
(* Daily records.                                                          *)
(***************************************************************************)
IntervalsPerDayOfVariant ==
    IF variant = "simplified" THEN IntervalsPerDaySimplified
    ELSE IntervalsPerDayFull

DaysOfVariant == IF variant = "simplified" THEN DaysSimplified ELSE DaysFull

\* some calendar date of the series holds fewer points than a whole day
HasPartialDay ==
    \E k \in 1..Len(DailyTotals) : IntervalsOfDay(k) # IntervalsPerDayOfVariant

\* C26: aggregating a series that does not cover whole calendar days fails
\* with an error instead of producing a daily record for the partial day.
C26_PartialDayRejected ==
    (Analyzed /\ base_daily_volume > 0 /\ HasPartialDay) => stats.error # "none"

\* C27: the daily aggregation yields exactly one record per generated day
\* (90 in the source), each aggregating exactly intervals_per_day points of
\* one calendar date, whatever the time of day of the construction.
C27_WholeDayRecords ==
    (Analyzed /\ base_daily_volume > 0) =>
        /\ Len(DailyTotals) = DaysOfVariant
        /\ \A k \in 1..Len(DailyTotals) :
               IntervalsOfDay(k) = IntervalsPerDayOfVariant

\* the 0-based position of the daily record the interval generated last is
\* aggregated into
LastRecordPosition ==
    IF variant = "simplified" THEN LastDayIndex
    ELSE DateOf(LastRecord.timestamp) - DateOf(dates_at(0))

\* C28: every interval aggregated into the daily record at 0-based position
\* k was generated with the growth factor 1 + 0.03 * k / 30.
C28_GrowthFactorPerRecord ==
    (locals.hour >= 0 /\ base_daily_volume > 0) =>
        locals.growth_factor = Norm(<<1000 + LastRecordPosition, 1000>>)

(***************************************************************************)
(* The default volume without noise: base_daily_volume = 94301 and every   *)
(* random_factor equal to 1.0, the series starting on each weekday.  The   *)
(* hourly pattern of calculate_statistics (lines 131-137 and 163-166) is   *)
(* computed on its own here: it reads the hourly values only and none of   *)
(* the other statistics, whose sums of squares at this volume exceed the   *)
(* integers the model computes with.                                       *)
(***************************************************************************)
NoiselessSeed == [kind |-> "fixed", x |-> 1]

\* 13:07 on each day of one week
WeekdayStarts == {NowBase + d * MinutesPerDay + 13 * 60 + 7 : d \in 0..6}

InitNoiseless ==
    /\ variant = "simplified"
    /\ base_daily_volume = DefaultDailyVolume
    /\ now \in WeekdayStarts
    /\ rng = NoiselessSeed
    /\ pc = "generate"
    /\ day = 0
    /\ hour = 0
    /\ daily_total = 0
    /\ hourly_data = <<>>
    /\ idx = 0
    /\ locals = NoLocals
    /\ historical_data = <<>>
    /\ base_stats = NoStats
    /\ calc = NoStats
    /\ stats = NoStats
    /\ storage = NoStats
    /\ metadata = NoStats
    /\ previous = <<>>

\* the "Peak patterns" block of calculate_statistics and the peak_hours and
\* low_activity_hours entries of its result
CalculateHourlyPattern ==
    /\ variant = "simplified"
    /\ pc = "ready"
    /\ LET hourly_averages == hourly_averages_of(historical_data)
       IN  stats' = [error |-> "none",
                     peak_hours |-> peak_hours_of(hourly_averages),
                     low_activity_hours |-> low_activity_hours_of(hourly_averages)]
    /\ pc' = "done"
    /\ UNCHANGED <<variant, base_daily_volume, now, rng, day, hour, daily_total,
                   hourly_data, idx, locals, historical_data, base_stats, calc,
                   storage, metadata, previous>>

NextNoiseless ==
    \/ GenerateHour
    \/ AppendDay
    \/ CalculateHourlyPattern

SpecNoiseless == InitNoiseless /\ [][NextNoiseless]_vars

\* C29: with the noise fixed at 1.0 and base_daily_volume = 94301, whatever
\* weekday the series starts on, the statistics report
\* peak_hours = [9, 10, 11] and low_activity_hours = [0, 1, 2].
C29_NoiselessPeakAndLowHours ==
    (Returned /\ rng = NoiselessSeed /\ base_daily_volume = DefaultDailyVolume) =>
        /\ TemporalPatterns.peak_hours = <<9, 10, 11>>
        /\ TemporalPatterns.low_activity_hours = <<0, 1, 2>>

\* C29 witness: the statistics of a noiseless series at the default volume
\* that starts on a Saturday
C29_Witness ==
    /\ Returned
    /\ rng = NoiselessSeed
    /\ base_daily_volume = DefaultDailyVolume
    /\ Weekday(start_date) = 5
    /\ locals.random_factor = <<1, 1>>
    /\ historical_data[1].hourly_data[10] > historical_data[1].hourly_data[9]

(***************************************************************************)
(* The exported metadata.                                                  *)
(***************************************************************************)
\* C30: in the simplified report the metadata flag r_squared_requirement_met
\* (trend_r_squared > 0.95) is true for every dataset.
C30_RequirementFlagAlwaysTrue ==
    metadata.error = "none" => metadata.r_squared_requirement_met

\* C30 witness: the flag of a dataset whose computed fit is below 0.95
C30_Witness ==
    /\ metadata.error = "none"
    /\ metadata.r_squared_requirement_met
    /\ RLess(calc.r_squared, RSquaredThreshold)
    /\ stats.trend_r_squared = RSquaredSynthetic

====
